---- MODULE Spec2Model ----
(***************************************************************************)
(* A model of the e-ink conversion tool (crop_and_convert.py): the blue    *)
(* reduction curve and pixel corrector, the frame colorizer, the           *)
(* adjustment stage, the crop geometry, the palette quantizer and the      *)
(* orchestration in main().                                                *)
(*                                                                         *)
(* Floating point values are modelled in fixed point with 16 fractional    *)
(* bits (One = 2^16 stands for 1.0).  exp, sin and cos are evaluated by    *)
(* their power series.  The blue channel computed by the model agrees with *)
(* the double precision code except for an occasional difference of one    *)
(* count where the exact product lies within about 2^-10 of an integer.    *)
(***************************************************************************)
EXTENDS Integers, Sequences, FiniteSets, TLC

VARIABLES
    pix,        \* one direct call of reduce_blue_in_pixel: arguments, locals, result
    col,        \* one call of apply_blue_reduction: image, arguments, result
    geo,        \* one call of crop_to_ratio (and the resize that follows it)
    dit,        \* one call of simple_dither: image, palette, method, result
    pc,         \* main(): position in the function
    args,       \* main(): the parsed command line
    env,        \* main(): which files exist, the decoded input, the palette
    image,      \* main(): the local variable `image`
    target,     \* main(): crop_ratio and final_dimensions
    trace,      \* main(): the stages executed so far, in order, each with its output
    saved,      \* main(): what image.save wrote
    overflow    \* main(): a narrowing store to uint8 changed a value

vars == <<pix, col, geo, dit, pc, args, env, image, target, trace, saved, overflow>>

(***************************************************************************)
(* Bounds of the model.                                                    *)
(***************************************************************************)
ExpTerms == 24          \* terms of the exponential series
TrigTerms == 10         \* terms of the sine and cosine series
MaxFrameW == 2          \* width of the frames given to the frame colorizer
MaxDim == 12            \* largest width and height given to crop_to_ratio
MaxDitherW == 2         \* width of the frames given to the quantizer
MaxDitherH == 2         \* height of the frames given to the quantizer
StripLen == 2           \* pixels of the top scan line that main()'s model follows

(***************************************************************************)
(* Fixed point arithmetic.                                                 *)
(***************************************************************************)
FracBits == 8 + 8
Limb == 2 ^ 8
One == Limb * Limb

Abs(a) == IF a < 0 THEN -a ELSE a
Sgn(a) == IF a < 0 THEN -1 ELSE 1
Min(a, b) == IF a < b THEN a ELSE b
Max(a, b) == IF a > b THEN a ELSE b

\* a \div k rounded toward zero
TruncDiv(a, k) == Sgn(a) * (Abs(a) \div k)

\* the product of two fixed point numbers, rounded to the nearest 2^-16
MulFix(a, b) ==
    LET ah == Abs(a) \div Limb
        al == Abs(a) % Limb
        bh == Abs(b) \div Limb
        bl == Abs(b) % Limb
    IN  Sgn(a) * Sgn(b) *
        (ah * bh + ((ah * bl + al * bh + ((al * bl) \div Limb) + (Limb \div 2)) \div Limb))

RECURSIVE DivBits(_, _, _)
\* the first k binary digits of r / b, for 0 <= r < b
DivBits(r, b, k) ==
    IF k = 0 THEN 0
    ELSE LET bit == IF 2 * r >= b THEN 1 ELSE 0
         IN  bit * (2 ^ (k - 1)) + DivBits(2 * r - bit * b, b, k - 1)

\* n / d as a fixed point number, for integers n >= 0, d > 0
FracFix(n, d) == (n \div d) * One + DivBits(n % d, d, FracBits)

\* the quotient of two fixed point numbers, b # 0
DivFix(a, b) == Sgn(a) * Sgn(b) * FracFix(Abs(a), Abs(b))

RECURSIVE ExpSeries(_, _, _)
ExpSeries(term, y, k) ==
    IF k > ExpTerms THEN 0
    ELSE LET t == TruncDiv(MulFix(term, y), k)
         IN  t + ExpSeries(t, y, k + 1)

\* math.exp
ExpFix(y) == One + ExpSeries(One, y, 1)

\* math.pi
Pi == 205887

\* the argument of sin and cos brought into (-pi, pi]
Reduce(t) == IF t > Pi THEN t - 2 * Pi ELSE t

RECURSIVE SinSeries(_, _, _)
SinSeries(term, t, k) ==
    IF k > TrigTerms THEN 0
    ELSE LET n == -TruncDiv(MulFix(MulFix(term, t), t), (2 * k) * (2 * k + 1))
         IN  n + SinSeries(n, t, k + 1)

\* math.sin
SinFix(t) == Reduce(t) + SinSeries(Reduce(t), Reduce(t), 1)

RECURSIVE CosSeries(_, _, _)
CosSeries(term, t, k) ==
    IF k > TrigTerms THEN 0
    ELSE LET n == -TruncDiv(MulFix(MulFix(term, t), t), (2 * k - 1) * (2 * k))
         IN  n + CosSeries(n, t, k + 1)

\* math.cos
CosFix(t) == One + CosSeries(One, Reduce(t), 1)

(***************************************************************************)
(* reduce_blue_in_pixel                                                    *)
(***************************************************************************)
\* the epsilon 0.000001 of `total`, in millionths
EpsilonMicro == 1

\* total = r_norm + g_norm + b_norm + 0.000001, in units of 1/(255 * 10^6)
Total(r, g, b) == (r + g + b) * 1000000 + 255 * EpsilonMicro

\* blue_ratio = b_norm / total
BlueRatio(r, g, b) == FracFix(b * 1000000, Total(r, g, b))

\* luminance = 0.299 * r_norm + 0.587 * g_norm + 0.114 * b_norm
Luminance(r, g, b) == FracFix(299 * r + 587 * g + 114 * b, 255000)

\* the curve without the "- 1" that precedes "* strength"
CurveResultNoOffset(blue_ratio, strength) ==
    LET shrunk_ratio == MulFix(blue_ratio, (3 * One) \div 2)
        pi2 == MulFix(Pi, Pi)
        bracket == -4 * MulFix(pi2, ExpFix(3 * shrunk_ratio))
                   + 6 * MulFix(Pi, SinFix(2 * MulFix(Pi, shrunk_ratio)))
                   - 9 * CosFix(2 * MulFix(Pi, shrunk_ratio)) + 9 * One + 4 * pi2
        numer == MulFix(TruncDiv(bracket, 4), ExpFix(3 * One - 3 * shrunk_ratio))
        normalized == DivFix(numer, MulFix(pi2, One - ExpFix(3 * One)))
    IN  MulFix(normalized, strength) + One

\* the value `result` of the curve, from blue_ratio and strength
CurveResult(blue_ratio, strength) ==
    LET shrunk_ratio == MulFix(blue_ratio, (3 * One) \div 2)
        pi2 == MulFix(Pi, Pi)
        exp_term == ExpFix(3 * shrunk_ratio)
        sin_term == SinFix(2 * MulFix(Pi, shrunk_ratio))
        cos_term == CosFix(2 * MulFix(Pi, shrunk_ratio))
        exp_denom == ExpFix(3 * One)
        bracket == -4 * MulFix(pi2, exp_term) + 6 * MulFix(Pi, sin_term)
                   - 9 * cos_term + 9 * One + 4 * pi2
        numer == MulFix(TruncDiv(bracket, 4), ExpFix(3 * One - 3 * shrunk_ratio))
        normalized == DivFix(numer, MulFix(pi2, One - exp_denom))
    IN  MulFix(normalized - One, strength) + One

\* additional_reduction for a dark pixel
DarkReduction(luminance, dark_strength, luminance_threshold) ==
    LET darkness_factor == One - DivFix(luminance, luminance_threshold)
    IN  One - MulFix(MulFix(dark_strength, darkness_factor), One \div 10)

\* reduction_factor
ReductionFactor(r, g, b, strength, dark_strength, luminance_threshold) ==
    LET luminance == Luminance(r, g, b)
        dark == IF dark_strength > 0 /\ luminance < luminance_threshold
                THEN MulFix(One, DarkReduction(luminance, dark_strength, luminance_threshold))
                ELSE One
    IN  IF strength > 0
        THEN MulFix(dark, CurveResult(BlueRatio(r, g, b), strength))
        ELSE dark

\* the clamp without its upper limit
ClampBlueLow(x) == Max(0, x)

\* max(0, min(255, x))
ClampBlue(x) == Max(0, Min(255 * One, x))

\* new_b = max(0, min(255, b_norm * reduction_factor * 255)); int(new_b)
NewBlue(b, reduction_factor) == ClampBlue(b * reduction_factor) \div One

\* the pixel corrector with the channels of its early return in the order b, g, r
reduce_blue_in_pixel_bgr(r, g, b, strength, dark_strength, luminance_threshold) ==
    IF strength = 0 /\ dark_strength = 0
    THEN [err |-> "none", r |-> b, g |-> g, b |-> r]
    ELSE [err |-> "none", r |-> r, g |-> g,
          b |-> NewBlue(b, ReductionFactor(r, g, b, strength, dark_strength,
                                           luminance_threshold))]

reduce_blue_in_pixel(r, g, b, strength, dark_strength, luminance_threshold) ==
    IF strength = 0 /\ dark_strength = 0
    THEN [err |-> "none", r |-> r, g |-> g, b |-> b]
    ELSE IF Total(r, g, b) = 0
    THEN [err |-> "ZeroDivisionError", r |-> r, g |-> g, b |-> b]
    ELSE [err |-> "none", r |-> r, g |-> g,
          b |-> NewBlue(b, ReductionFactor(r, g, b, strength, dark_strength,
                                           luminance_threshold))]

(***************************************************************************)
(* Frame buffers: [w, h, px], px the pixels in raster order, each pixel a  *)
(* record [r, g, b] of uint8 samples.                                      *)
(***************************************************************************)
Pixel(r, g, b) == [r |-> r, g |-> g, b |-> b]

\* a store into a uint8 array keeps the low eight bits
Narrow8(v) == v % 256

NarrowPixel(p) == [r |-> Narrow8(p.r), g |-> Narrow8(p.g), b |-> Narrow8(p.b)]

\* the store changes the value
Lossy(p) == \E v \in {p.r, p.g, p.b} : v < 0 \/ v > 255

\* luminance_threshold=0.35, the default that apply_blue_reduction relies on
DefaultThreshold == 22938

(***************************************************************************)
(* apply_blue_reduction: the pixels before narrowing, and the image.       *)
(***************************************************************************)
BlueReducedRaw(img, strength, dark_strength) ==
    [i \in DOMAIN img.px |->
        LET p == reduce_blue_in_pixel(img.px[i].r, img.px[i].g, img.px[i].b,
                                      strength, dark_strength, DefaultThreshold)
        IN  Pixel(p.r, p.g, p.b)]

apply_blue_reduction(img, strength, dark_strength) ==
    IF strength = 0 /\ dark_strength = 0
    THEN [image |-> img, lossy |-> FALSE]
    ELSE LET raw == BlueReducedRaw(img, strength, dark_strength)
         IN  [image |-> [img EXCEPT !.px = [i \in DOMAIN raw |-> NarrowPixel(raw[i])]],
              lossy |-> \E i \in DOMAIN raw : Lossy(raw[i])]

(***************************************************************************)
(* Calls of the pixel corrector and of the frame colorizer.                *)
(***************************************************************************)
Idle == [status |-> "idle"]

PixelChannels == {0, 1, 100, 128, 255}
PixelStrengths == {0, One \div 2, One, 10 * One}
PixelDarkStrengths == {0, 5 * One, 30 * One}
PixelThresholds == {One \div 10, DefaultThreshold, One}

FramePixels == {Pixel(0, 0, 255), Pixel(0, 0, 100), Pixel(200, 200, 100),
                Pixel(10, 10, 10), Pixel(0, 0, 0)}
FrameStrengths == {0, 10 * One}
FrameDarkStrengths == {0, 5 * One}

Frames == UNION {[w : {n}, h : {1}, px : [1..n -> FramePixels]] : n \in 1..MaxFrameW}

InitPixelCall ==
    /\ pix \in [status : {"called"}, r : PixelChannels, g : PixelChannels,
                b : PixelChannels, strength : PixelStrengths,
                dark_strength : PixelDarkStrengths,
                luminance_threshold : PixelThresholds,
                blue_ratio : {0}, result : {One}, out : {Pixel(0, 0, 0)}]
    /\ col = Idle

InitFrameCall ==
    /\ pix = Idle
    /\ col \in [status : {"called"}, image : Frames, strength : FrameStrengths,
                dark_strength : FrameDarkStrengths, out : {[w |-> 0, h |-> 0, px |-> <<>>]},
                lossy : {FALSE}]

MainIdle ==
    /\ pc = "idle"
    /\ args = Idle
    /\ env = Idle
    /\ image = Idle
    /\ target = Idle
    /\ trace = <<>>
    /\ saved = Idle
    /\ overflow = FALSE

mainVars == <<pc, args, env, image, target, trace, saved, overflow>>

InitPixel ==
    /\ InitPixelCall \/ InitFrameCall
    /\ geo = Idle
    /\ dit = Idle
    /\ MainIdle

\* reduce_blue_in_pixel(r, g, b, strength, dark_strength, luminance_threshold)
CallPixel ==
    /\ pix.status = "called"
    /\ LET p == reduce_blue_in_pixel(pix.r, pix.g, pix.b, pix.strength,
                                     pix.dark_strength, pix.luminance_threshold)
           ran == ~(pix.strength = 0 /\ pix.dark_strength = 0)
       IN  pix' = [pix EXCEPT
                     !.status = IF p.err = "none" THEN "returned" ELSE p.err,
                     !.blue_ratio = IF ran THEN BlueRatio(pix.r, pix.g, pix.b) ELSE @,
                     !.result = IF ran /\ pix.strength > 0
                                THEN CurveResult(BlueRatio(pix.r, pix.g, pix.b), pix.strength)
                                ELSE @,
                     !.out = Pixel(p.r, p.g, p.b)]
    /\ UNCHANGED <<col, geo, dit, mainVars>>

\* apply_blue_reduction(image, strength, dark_strength)
CallColorize ==
    /\ col.status = "called"
    /\ LET res == apply_blue_reduction(col.image, col.strength, col.dark_strength)
       IN  col' = [col EXCEPT !.status = "returned", !.out = res.image,
                              !.lossy = res.lossy]
    /\ UNCHANGED <<pix, geo, dit, mainVars>>

NextPixel == CallPixel \/ CallColorize

SpecPixel == InitPixel /\ [][NextPixel]_vars

(***************************************************************************)
(* The geometry stage: orientation, crop_to_ratio, resize.                 *)
(***************************************************************************)
DigitValue(c) ==
    CASE c = "0" -> 0 [] c = "1" -> 1 [] c = "2" -> 2 [] c = "3" -> 3 [] c = "4" -> 4
      [] c = "5" -> 5 [] c = "6" -> 6 [] c = "7" -> 7 [] c = "8" -> 8 [] c = "9" -> 9

RECURSIVE ParseNumber(_)
\* float() of a string of digits
ParseNumber(chars) ==
    IF chars = <<>> THEN 0
    ELSE 10 * ParseNumber(SubSeq(chars, 1, Len(chars) - 1)) + DigitValue(chars[Len(chars)])

\* the position of the first ':' of a string
ColonAt(chars) == CHOOSE i \in 1..Len(chars) : chars[i] = ":" /\ \A j \in 1..(i - 1) : chars[j] # ":"

\* ratio_str.split(':'), parts 0 and 1 as numbers
RatioParts(ratio_str) ==
    [num |-> ParseNumber(SubSeq(ratio_str, 1, ColonAt(ratio_str) - 1)),
     den |-> ParseNumber(SubSeq(ratio_str, ColonAt(ratio_str) + 1, Len(ratio_str)))]

Landscape == [crop_ratio |-> <<"5", ":", "3">>, final_dimensions |-> <<800, 480>>,
              orientation |-> "landscape"]
Portrait == [crop_ratio |-> <<"3", ":", "5">>, final_dimensions |-> <<480, 800>>,
             orientation |-> "portrait"]

\* main(): the orientation of an image of the given size
Orientation(width, height) == IF width > height THEN Landscape ELSE Portrait

\* crop_to_ratio with the multiplication and the division by target_ratio exchanged
crop_to_ratio_swapped(width, height, ratio_str) ==
    LET t == RatioParts(ratio_str)
    IN  IF height = 0
        THEN [err |-> "ZeroDivisionError", left |-> 0, upper |-> 0, right |-> 0, lower |-> 0]
        ELSE IF width * t.den > height * t.num
        THEN LET new_width == (height * t.den) \div t.num
                 left == (width - new_width) \div 2
             IN  [err |-> "none", left |-> left, upper |-> 0,
                  right |-> left + new_width, lower |-> height]
        ELSE LET new_height == (width * t.num) \div t.den
                 top == (height - new_height) \div 2
             IN  [err |-> "none", left |-> 0, upper |-> top,
                  right |-> width, lower |-> top + new_height]

\* the crop box of crop_to_ratio, or the exception it raises;
\* target_ratio = num/den and current_ratio = width/height are compared exactly
crop_to_ratio(width, height, ratio_str) ==
    LET t == RatioParts(ratio_str)
    IN  IF height = 0
        THEN [err |-> "ZeroDivisionError", left |-> 0, upper |-> 0, right |-> 0, lower |-> 0]
        ELSE IF width * t.den > height * t.num
        THEN LET new_width == (height * t.num) \div t.den
                 left == (width - new_width) \div 2
             IN  [err |-> "none", left |-> left, upper |-> 0,
                  right |-> left + new_width, lower |-> height]
        ELSE LET new_height == (width * t.den) \div t.num
                 top == (height - new_height) \div 2
             IN  [err |-> "none", left |-> 0, upper |-> top,
                  right |-> width, lower |-> top + new_height]

BoxWidth(box) == box.right - box.left
BoxHeight(box) == box.lower - box.upper

NoBox == [err |-> "none", left |-> 0, upper |-> 0, right |-> 0, lower |-> 0]

InitGeom ==
    /\ geo \in [status : {"loaded"}, width : 0..MaxDim, height : 0..MaxDim,
                target : {Idle}, box : {NoBox}, size : {<<0, 0>>}]
    /\ pix = Idle
    /\ col = Idle
    /\ dit = Idle
    /\ MainIdle

\* main(): if width > height ... else ...
GeoSelect ==
    /\ geo.status = "loaded"
    /\ geo' = [geo EXCEPT !.status = "selected",
                          !.target = Orientation(geo.width, geo.height)]
    /\ UNCHANGED <<pix, col, dit, mainVars>>

\* image = crop_to_ratio(image, crop_ratio)
GeoCrop ==
    /\ geo.status = "selected"
    /\ LET box == crop_to_ratio(geo.width, geo.height, geo.target.crop_ratio)
       IN  geo' = [geo EXCEPT !.status = IF box.err = "none" THEN "cropped" ELSE box.err,
                              !.box = box,
                              !.size = <<BoxWidth(box), BoxHeight(box)>>]
    /\ UNCHANGED <<pix, col, dit, mainVars>>

\* image = image.resize(final_dimensions, Image.LANCZOS)
GeoResize ==
    /\ geo.status = "cropped"
    /\ geo' = [geo EXCEPT !.status = "resized", !.size = geo.target.final_dimensions]
    /\ UNCHANGED <<pix, col, dit, mainVars>>

NextGeom == GeoSelect \/ GeoCrop \/ GeoResize

SpecGeom == InitGeom /\ [][NextGeom]_vars

(***************************************************************************)
(* apply_adjustments.  ImageEnhance (saturation, contrast) is the imaging  *)
(* library's blend of the image with a grey version of itself, with its    *)
(* result clipped to 0..255 and truncated.                                 *)
(***************************************************************************)
\* no clipping at all
NpClipNone(x, lo, hi) == x

\* np.clip(x, lo, hi)
NpClip(x, lo, hi) == Max(lo, Min(hi, x))

\* image.convert("L") of one pixel
Grey(p) == (p.r * 19595 + p.g * 38470 + p.b * 7471 + 32768) \div 65536

\* Image.blend(degenerate, image, num/den) of one channel
Blend(deg, v, num, den) == Max(0, Min(255, (deg * den + num * (v - deg)) \div den))

BlendPixel(deg, p, num, den) ==
    Pixel(Blend(deg, p.r, num, den), Blend(deg, p.g, num, den), Blend(deg, p.b, num, den))

RECURSIVE SumGrey(_, _)
SumGrey(px, n) == IF n = 0 THEN 0 ELSE Grey(px[n]) + SumGrey(px, n - 1)

\* ImageEnhance.Color(image).enhance(saturation / 100.0)
Saturate(px, saturation) ==
    LET F(p) == BlendPixel(Grey(p), p, saturation, 100)
    IN  [i \in DOMAIN px |-> F(px[i])]

\* img_array + (black_level * 255 / 100), clipped, before the cast to uint8
BlackLevelRaw(px, black_level) ==
    LET lift(v) == NpClip(v * 100 + black_level * 255, 0, 25500) \div 100
        F(p) == Pixel(lift(p.r), lift(p.g), lift(p.b))
    IN  [i \in DOMAIN px |-> F(px[i])]

\* the factor with the sign of the increase wrong: 1 - contrast * 0.2
ContrastFactor10Inverted(contrast) == IF contrast > 0 THEN 10 - contrast * 2 ELSE 10 + contrast

\* the factor of enhancer.enhance, in tenths: 1 + contrast * 0.2 or 1 + contrast * 0.1
ContrastFactor10(contrast) == IF contrast > 0 THEN 10 + contrast * 2 ELSE 10 + contrast

\* ImageEnhance.Contrast(image).enhance(factor): the grey level is the rounded mean
Contrast(px, contrast) ==
    LET n == Len(px)
        mean == IF n = 0 THEN 0 ELSE (2 * SumGrey(px, n) + n) \div (2 * n)
        F(p) == BlendPixel(mean, p, ContrastFactor10(contrast), 10)
    IN  [i \in DOMAIN px |-> F(px[i])]

\* the shadow lift, clipped, before the cast to uint8
ShadowsRaw(px, shadows) ==
    LET lum(p) == 299 * p.r + 587 * p.g + 114 * p.b
        lift(v, p) == NpClip(v * 255000 + (255000 - lum(p)) * shadows * 5, 0, 255 * 255000)
                      \div 255000
        F(p) == Pixel(lift(p.r, p), lift(p.g, p), lift(p.b, p))
    IN  [i \in DOMAIN px |-> F(px[i])]

apply_adjustments(img, saturation, black_level, contrast, shadows) ==
    LET s1 == IF saturation # 100 THEN Saturate(img.px, saturation) ELSE img.px
        raw2 == IF black_level > 0 THEN BlackLevelRaw(s1, black_level) ELSE s1
        s2 == [i \in DOMAIN raw2 |-> NarrowPixel(raw2[i])]
        s3 == IF contrast # 0 THEN Contrast(s2, contrast) ELSE s2
        raw4 == IF shadows > 0 THEN ShadowsRaw(s3, shadows) ELSE s3
        s4 == [i \in DOMAIN raw4 |-> NarrowPixel(raw4[i])]
    IN  [image |-> [img EXCEPT !.px = s4],
         lossy |-> \E i \in DOMAIN raw2 : Lossy(raw2[i]) \/ Lossy(raw4[i])]

(***************************************************************************)
(* simple_dither.  image.quantize is the imaging library's; it is modelled *)
(* as the quantizer the specification describes: nearest palette colour,   *)
(* and Floyd-Steinberg error diffusion in raster order.                    *)
(***************************************************************************)
Dist2(p, q) == (p.r - q.r) * (p.r - q.r) + (p.g - q.g) * (p.g - q.g) + (p.b - q.b) * (p.b - q.b)

\* the index of the nearest palette colour, the first of equally near ones
Nearest(p, palette) ==
    CHOOSE k \in DOMAIN palette :
        /\ \A j \in DOMAIN palette : Dist2(p, palette[k]) <= Dist2(p, palette[j])
        /\ \A j \in 1..(k - 1) : Dist2(p, palette[j]) > Dist2(p, palette[k])

\* image.quantize(palette=palette_img, dither=Image.NONE)
QuantizeNone(img, palette) == [i \in DOMAIN img.px |-> Nearest(img.px[i], palette)]

\* pixel p with the share num/16 of the error e added
AddError(p, e, num) ==
    Pixel(p.r + (e.r * num) \div 16, p.g + (e.g * num) \div 16, p.b + (e.b * num) \div 16)

\* the working buffer after the error of pixel i has been diffused to its neighbours
Diffuse(work, w, h, i, e) ==
    LET x == (i - 1) % w
        y == (i - 1) \div w
    IN  [j \in DOMAIN work |->
            IF x + 1 < w /\ j = i + 1 THEN AddError(work[j], e, 7)
            ELSE IF y + 1 < h /\ x > 0 /\ j = i + w - 1 THEN AddError(work[j], e, 3)
            ELSE IF y + 1 < h /\ j = i + w THEN AddError(work[j], e, 5)
            ELSE IF y + 1 < h /\ x + 1 < w /\ j = i + w + 1 THEN AddError(work[j], e, 1)
            ELSE work[j]]

RECURSIVE FloydSteinberg(_, _, _, _, _, _)
\* the palette indices chosen for pixels i.. of the working buffer, in raster order
FloydSteinberg(work, w, h, palette, i, chosen) ==
    IF i > Len(work) THEN chosen
    ELSE LET k == Nearest(work[i], palette)
             e == Pixel(work[i].r - palette[k].r, work[i].g - palette[k].g,
                        work[i].b - palette[k].b)
         IN  FloydSteinberg(Diffuse(work, w, h, i, e), w, h, palette, i + 1,
                            Append(chosen, k))

\* image.quantize(palette=palette_img, dither=Image.FLOYDSTEINBERG)
QuantizeFloyd(img, palette) == FloydSteinberg(img.px, img.w, img.h, palette, 1, <<>>)

\* method.lower()
Lower(method) ==
    CASE method = "None" -> "none"
      [] method = "FloydSteinberg" -> "floydsteinberg"
      [] OTHER -> method

\* simple_dither returning the image as it is when no dithering is asked for
simple_dither_skip(img, palette, method) ==
    IF Lower(method) = "none"
    THEN img
    ELSE [img EXCEPT !.px = [i \in DOMAIN img.px |->
                                palette[QuantizeFloyd(img, palette)[i]]]]

simple_dither(img, palette, method) ==
    LET quantized == IF Lower(method) = "none"
                     THEN QuantizeNone(img, palette)
                     ELSE QuantizeFloyd(img, palette)
    IN  [img EXCEPT !.px = [i \in DOMAIN quantized |-> palette[quantized[i]]]]

Black == Pixel(0, 0, 0)
White == Pixel(255, 255, 255)
SevenColours == <<Black, White, Pixel(0, 255, 0), Pixel(0, 0, 255), Pixel(255, 0, 0),
                  Pixel(255, 255, 0), Pixel(255, 128, 0)>>
Palettes == {<<Black, White>>, <<White, Pixel(255, 0, 0), Black>>, SevenColours}

DitherPixels == {Pixel(128, 128, 128), Pixel(200, 100, 50)}
DitherFrames ==
    UNION {[w : {n}, h : {m}, px : [1..(n * m) -> DitherPixels]] :
           n \in 1..MaxDitherW, m \in 1..MaxDitherH}

InitDither ==
    /\ dit \in [status : {"called"}, image : DitherFrames, palette : Palettes,
                method : {"FloydSteinberg", "None"},
                out : {[w |-> 0, h |-> 0, px |-> <<>>]}]
    /\ pix = Idle
    /\ col = Idle
    /\ geo = Idle
    /\ MainIdle

\* simple_dither(image, palette_path, method)
CallDither ==
    /\ dit.status = "called"
    /\ dit' = [dit EXCEPT !.status = "returned",
                          !.out = simple_dither(dit.image, dit.palette, dit.method)]
    /\ UNCHANGED <<pix, col, geo, mainVars>>

NextDither == CallDither

SpecDither == InitDither /\ [][NextDither]_vars

(***************************************************************************)
(* main().  The input is an image of one solid colour; the model follows   *)
(* its size and the first StripLen pixels of its top scan line, which no   *)
(* stage makes depend on pixels outside them (the error diffusion reaches  *)
(* the top scan line from the left only).                                  *)
(***************************************************************************)
Strip(width, fill) == [i \in 1..Min(StripLen, width) |-> fill]

\* Image.open(args.image_path)
Open(source) == [w |-> source.w, h |-> source.h, px |-> Strip(source.w, source.fill)]

\* image.crop(box) of a solid image
Crop(img, box) == [w |-> BoxWidth(box), h |-> BoxHeight(box),
                   px |-> Strip(BoxWidth(box), img.px[1])]

\* image.resize(final_dimensions, Image.LANCZOS) of a solid image
Resize(img, final_dimensions) ==
    [w |-> final_dimensions[1], h |-> final_dimensions[2],
     px |-> Strip(final_dimensions[1], img.px[1])]

\* the top scan line window as a frame of its own
Window(img) == [w |-> Len(img.px), h |-> 1, px |-> img.px]

\* simple_dither on the followed window of the image
DitherImage(img, palette, method) ==
    [img EXCEPT !.px = simple_dither(Window(img), palette, method).px]

Red == Pixel(255, 0, 0)
Sources == [w : {1600}, h : {960}, fill : {Red, Pixel(0, 0, 255), Pixel(100, 100, 100)}]
           \cup {[w |-> 960, h |-> 1600, fill |-> Pixel(10, 10, 10)],
                 [w |-> 7, h |-> 7, fill |-> Pixel(0, 0, 255)]}

DefaultArgs == [blue_reduction |-> 0, dark_blue_reduction |-> 0, saturation |-> 100,
                black_level |-> 0, contrast |-> 1, shadows |-> 0,
                dither_method |-> "FloydSteinberg"]

ArgSets == [blue_reduction : {0, 10 * One}, dark_blue_reduction : {0, 5 * One},
            saturation : {100, 50}, black_level : {0, 300}, contrast : {1, 0, -2},
            shadows : {0, 100}, dither_method : {"FloydSteinberg", "None"}]

Init ==
    /\ pc = "start"
    /\ args \in ArgSets
    /\ env \in [input_exists : BOOLEAN, palette_exists : BOOLEAN, source : Sources,
                palette : {SevenColours}]
    /\ image = Idle
    /\ target = Idle
    /\ trace = <<>>
    /\ saved = Idle
    /\ overflow = FALSE
    /\ pix = Idle
    /\ col = Idle
    /\ geo = Idle
    /\ dit = Idle

harnessVars == <<pix, col, geo, dit>>

\* a stage of the pipeline that has run, and the image it returned
Stage(name, out) == [stage |-> name, out |-> out]

\* if not os.path.exists(args.image_path): sys.exit(1)
CheckInput ==
    /\ pc = "start"
    /\ pc' = IF env.input_exists THEN "open" ELSE "exit1"
    /\ UNCHANGED <<args, env, image, target, trace, saved, overflow, harnessVars>>

\* image = Image.open(args.image_path)
OpenImage ==
    /\ pc = "open"
    /\ image' = Open(env.source)
    /\ pc' = "orient"
    /\ UNCHANGED <<args, env, target, trace, saved, overflow, harnessVars>>

\* width, height = image.size; if width > height: ... else: ...
SelectOrientation ==
    /\ pc = "orient"
    /\ target' = Orientation(image.w, image.h)
    /\ pc' = "crop"
    /\ UNCHANGED <<args, env, image, trace, saved, overflow, harnessVars>>

\* image = crop_to_ratio(image, crop_ratio)
CropStep ==
    /\ pc = "crop"
    /\ LET box == crop_to_ratio(image.w, image.h, target.crop_ratio)
       IN  IF box.err = "none"
           THEN /\ image' = Crop(image, box)
                /\ trace' = Append(trace, Stage("crop", image'))
                /\ pc' = "resize"
           ELSE /\ pc' = box.err
                /\ UNCHANGED <<image, trace>>
    /\ UNCHANGED <<args, env, target, saved, overflow, harnessVars>>

\* image = image.resize(final_dimensions, Image.LANCZOS)
ResizeStep ==
    /\ pc = "resize"
    /\ image' = Resize(image, target.final_dimensions)
    /\ trace' = Append(trace, Stage("resize", image'))
    /\ pc' = "blue"
    /\ UNCHANGED <<args, env, target, saved, overflow, harnessVars>>

\* image = apply_blue_reduction(image, args.blue_reduction, args.dark_blue_reduction)
BlueStep ==
    /\ pc = "blue"
    /\ LET res == apply_blue_reduction(image, args.blue_reduction, args.dark_blue_reduction)
       IN  /\ image' = res.image
           /\ overflow' = (overflow \/ res.lossy)
    /\ trace' = Append(trace, Stage("colorize", image'))
    /\ pc' = "adjust"
    /\ UNCHANGED <<args, env, target, saved, harnessVars>>

\* image = apply_adjustments(image, args.saturation, args.black_level, args.contrast,
\*                           args.shadows)
AdjustStep ==
    /\ pc = "adjust"
    /\ LET res == apply_adjustments(image, args.saturation, args.black_level,
                                    args.contrast, args.shadows)
       IN  /\ image' = res.image
           /\ overflow' = (overflow \/ res.lossy)
    /\ trace' = Append(trace, Stage("adjust", image'))
    /\ pc' = "palette"
    /\ UNCHANGED <<args, env, target, saved, harnessVars>>

\* if os.path.exists(palette_path): image = simple_dither(image, palette_path, ...)
DitherStep ==
    /\ pc = "palette"
    /\ env.palette_exists
    /\ image' = DitherImage(image, env.palette, args.dither_method)
    /\ trace' = Append(trace, Stage("quantize", image'))
    /\ pc' = "save"
    /\ UNCHANGED <<args, env, target, saved, overflow, harnessVars>>

\* a missing palette treated as fatal
SkipDitherExit ==
    /\ pc = "palette"
    /\ ~env.palette_exists
    /\ pc' = "exit1"
    /\ UNCHANGED <<args, env, image, target, trace, saved, overflow, harnessVars>>

\* else: print("Warning: Palette file ... not found. Skipping dithering.")
SkipDither ==
    /\ pc = "palette"
    /\ ~env.palette_exists
    /\ pc' = "save"
    /\ UNCHANGED <<args, env, image, target, trace, saved, overflow, harnessVars>>

\* image.save(output_path, 'BMP')
Save ==
    /\ pc = "save"
    /\ saved' = image
    /\ pc' = "done"
    /\ UNCHANGED <<args, env, image, target, trace, overflow, harnessVars>>

Next ==
    \/ CheckInput
    \/ OpenImage
    \/ SelectOrientation
    \/ CropStep
    \/ ResizeStep
    \/ BlueStep
    \/ AdjustStep
    \/ DitherStep
    \/ SkipDither
    \/ Save

Spec == Init /\ [][Next]_vars

(***************************************************************************)
(* Properties.                                                             *)
(***************************************************************************)

\* C1: with strength = 0 and dark_strength = 0 the pixel corrector returns its
\* input pixel, for every luminance_threshold, and the frame colorizer returns
\* the input frame with every pixel unchanged.
ZeroStrengthIdentity ==
    /\ (pix.status = "returned" /\ pix.strength = 0 /\ pix.dark_strength = 0)
          => pix.out = Pixel(pix.r, pix.g, pix.b)
    /\ (col.status = "returned" /\ col.strength = 0 /\ col.dark_strength = 0)
          => col.out = col.image

ZeroStrengthCalled ==
    /\ pix.status = "returned"
    /\ pix.strength = 0 /\ pix.dark_strength = 0
    /\ pix.b > 0 /\ pix.r # pix.b
    /\ pix.luminance_threshold # DefaultThreshold

InRange(img) ==
    \A i \in DOMAIN img.px : \A v \in {img.px[i].r, img.px[i].g, img.px[i].b} : v \in 0..255

\* C2: after every transform of a run every channel of every pixel of the frame
\* buffer is an integer in 0..255, and no store into the buffer wrapped around.
ChannelsInRange ==
    /\ ~overflow
    /\ pc \in {"orient", "crop", "resize", "blue", "adjust", "palette", "save", "done"}
          => InRange(image)
    /\ pc = "done" => InRange(saved)

ClampsActed ==
    /\ pc = "palette"
    /\ args.blue_reduction > 0 /\ args.black_level > 100 /\ args.shadows > 0
    /\ \E i \in DOMAIN image.px : image.px[i].r = 255

\* C3 as stated: the curve's multiplier is 1 when blue_ratio = 0, for any strength > 0.
CurveIsOneAtZeroBlue ==
    (pix.status = "returned" /\ pix.strength > 0 /\ pix.blue_ratio = 0) => pix.result = One

\* C3, amended: when blue_ratio = 0 the curve's multiplier is 1 - strength, for any
\* strength > 0; the pixel's blue channel, being 0, still comes out 0.
CurveAtZeroBlue ==
    (pix.status = "returned" /\ pix.strength > 0 /\ pix.blue_ratio = 0)
        => pix.result = One - pix.strength /\ pix.b = 0 /\ pix.out.b = 0

ZeroBlueEvaluated ==
    /\ pix.status = "returned"
    /\ pix.strength > 0 /\ pix.blue_ratio = 0
    /\ pix.r + pix.g > 0

PureBlueCall ==
    /\ col.status = "returned"
    /\ col.image.px = <<Pixel(0, 0, 255)>>
    /\ col.strength = 10 * One /\ col.dark_strength = 0

\* C4 as stated: a single pure-blue pixel, strength 10, dark_strength 0: the blue
\* channel comes out strictly less than 255, red and green stay 0.
PureBlueReduced ==
    PureBlueCall => col.out.px[1].b < 255 /\ col.out.px[1].r = 0 /\ col.out.px[1].g = 0

\* C4, amended: a single pure-blue pixel, strength 10, dark_strength 0: the blue
\* channel comes out 255, unchanged, and red and green stay 0.
PureBlueKept ==
    PureBlueCall => col.out = col.image /\ col.out.px[1] = Pixel(0, 0, 255)

PureBlueProcessed == PureBlueCall /\ col.out.w = 1 /\ col.out.h = 1

\* C5: for a source of width and height >= 1, 5:3 and 800x480 are selected when
\* width > height and 3:5 and 480x800 otherwise; the crop box lies inside the
\* source, is centred, reduces one dimension only and has the target ratio within
\* one pixel; the size after the resize is the selected target.
GeometryContract ==
    (geo.status # "idle" /\ geo.width >= 1 /\ geo.height >= 1) =>
        LET wide == geo.width > geo.height
            p == IF wide THEN 5 ELSE 3
            q == IF wide THEN 3 ELSE 5
            nw == BoxWidth(geo.box)
            nh == BoxHeight(geo.box)
        IN  /\ geo.status \in {"loaded", "selected", "cropped", "resized"}
            /\ geo.status \in {"selected", "cropped", "resized"} =>
                  /\ geo.target.crop_ratio = IF wide THEN <<"5", ":", "3">> ELSE <<"3", ":", "5">>
                  /\ geo.target.final_dimensions = IF wide THEN <<800, 480>> ELSE <<480, 800>>
            /\ geo.status \in {"cropped", "resized"} =>
                  /\ 0 <= geo.box.left /\ geo.box.left <= geo.box.right
                  /\ geo.box.right <= geo.width
                  /\ 0 <= geo.box.upper /\ geo.box.upper <= geo.box.lower
                  /\ geo.box.lower <= geo.height
                  /\ Abs(geo.box.left - (geo.width - geo.box.right)) <= 1
                  /\ Abs(geo.box.upper - (geo.height - geo.box.lower)) <= 1
                  /\ \/ nh = geo.height /\ Abs(nw * q - nh * p) < q
                     \/ nw = geo.width /\ Abs(nh * p - nw * q) < p
            /\ geo.status = "cropped" => geo.size = <<nw, nh>>
            /\ geo.status = "resized" => geo.size = IF wide THEN <<800, 480>> ELSE <<480, 800>>

CroppedAndResized ==
    /\ geo.status = "resized"
    /\ geo.width >= 1 /\ geo.height >= 1
    /\ BoxWidth(geo.box) < geo.width
    /\ geo.box.left > 0

InPalette(p, palette) == \E k \in DOMAIN palette : palette[k] = p

\* C6: in both quantizer modes every pixel of the frame returned by simple_dither
\* is one of the colours of the palette, and the frame keeps its size.
OutputInPalette ==
    dit.status = "returned" =>
        /\ dit.out.w = dit.image.w /\ dit.out.h = dit.image.h
        /\ DOMAIN dit.out.px = DOMAIN dit.image.px
        /\ \A i \in DOMAIN dit.out.px : InPalette(dit.out.px[i], dit.palette)

DiffusionChangedChoice ==
    /\ dit.status = "returned"
    /\ dit.method = "FloydSteinberg"
    /\ \E i \in DOMAIN dit.out.px :
          dit.out.px[i] # dit.palette[Nearest(dit.image.px[i], dit.palette)]

StageOrder == <<"crop", "resize", "colorize", "adjust", "quantize">>

\* C7: the stages run once each in the order crop, resize, frame colorizer,
\* adjustment stage, quantizer, each on the output of the one before; with the
\* palette present the saved result is Quantizer(Adjust(Colorize(Geometry(input))));
\* without it the quantizer is skipped, the run completes without error and
\* the saved result is the adjusted buffer.
PipelineOrder ==
    LET src == env.source
        n == Len(trace)
    IN  /\ n <= Len(StageOrder)
        /\ \A i \in 1..n : trace[i].stage = StageOrder[i]
        /\ n >= 1 => trace[1].out =
              Crop(Open(src), crop_to_ratio(src.w, src.h, Orientation(src.w, src.h).crop_ratio))
        /\ n >= 2 => trace[2].out =
              Resize(trace[1].out, Orientation(src.w, src.h).final_dimensions)
        /\ n >= 3 => trace[3].out =
              apply_blue_reduction(trace[2].out, args.blue_reduction,
                                   args.dark_blue_reduction).image
        /\ n >= 4 => trace[4].out =
              apply_adjustments(trace[3].out, args.saturation, args.black_level,
                                args.contrast, args.shadows).image
        /\ n >= 5 => trace[5].out = DitherImage(trace[4].out, env.palette, args.dither_method)
        /\ pc = "exit1" => ~env.input_exists
        /\ pc \in {"start", "open", "orient", "crop", "resize", "blue", "adjust", "palette",
                   "save", "done", "exit1"}
        /\ (pc = "palette" /\ ~env.palette_exists) => ENABLED SkipDither
        /\ pc = "save" => ENABLED Save
        /\ pc \in {"save", "done"} =>
              /\ n = IF env.palette_exists THEN 5 ELSE 4
              /\ image = trace[n].out
        /\ pc = "done" => saved = trace[n].out

QuantizedRunSaved ==
    /\ pc = "done"
    /\ env.palette_exists
    /\ Len(trace) = 5
    /\ saved # trace[4].out

RedRun ==
    /\ pc = "done"
    /\ env.source = [w |-> 1600, h |-> 960, fill |-> Red]
    /\ args = DefaultArgs
    /\ ~env.palette_exists

\* C8: a 1600x960 image of pure red, run with strength 0, dark_strength 0, the
\* default adjustment parameters and no palette, is saved as an 800x480 image
\* whose every pixel is (255, 0, 0).
RedStaysRed ==
    RedRun => /\ saved.w = 800 /\ saved.h = 480
              /\ Len(saved.px) = StripLen
              /\ \A i \in DOMAIN saved.px : saved.px[i] = Red

RedRunSaved == RedRun /\ Len(trace) = 4 /\ target = Landscape /\ saved.px[1] = Red

\* C9: numeric edge cases never raise: neither reduce_blue_in_pixel (on a black
\* pixel) nor crop_to_ratio (on an image with a zero-length dimension) ends in a
\* division error.
NumericEdgeCasesNeverRaise ==
    /\ pix.status # "ZeroDivisionError"
    /\ geo.status # "ZeroDivisionError"

\* C10: the blue channel returned by reduce_blue_in_pixel never exceeds the input
\* blue channel, for strength >= 0, dark_strength >= 0 and a threshold in (0, 1].
BlueNeverIncreases ==
    pix.status = "returned" => pix.out.b <= pix.b

====
